---- MODULE Spec2Model ----
(***************************************************************************)
(* Lifecycle orchestration of ESLauncher2 instances: the Instance state    *)
(* machine (src/src/instance.rs), the message dispatcher                   *)
(* (src/src/main.rs) and the background tasks scheduled by                 *)
(* Instance::update through iced::Command::perform.                        *)
(*                                                                         *)
(* The control thread owns `instances` and consumes `channel` one message  *)
(* at a time.  Every iced::Command::perform future is a background task    *)
(* of its own; the futures of one Command::batch are spawned together and  *)
(* run concurrently, so their steps interleave freely with each other and  *)
(* with the control thread.                                                *)
(***************************************************************************)
EXTENDS Integers, Sequences, FiniteSets, TLC

\* Number of button presses the user makes in one run (bound).
MaxClicks == 2

\* Display names of the installed instances; the name is the routing key
\* carried by Message::InstanceMessage (instance.rs:132-133, 159).
Names == {"a"}

VARIABLES
    instances,  \* the registry: routing key -> Instance (absent key = removed)
    channel,    \* FIFO of Messages waiting for ESLauncher::update
    ops,        \* one record per accepted Play/Update/Folder/Delete command
    clicks,     \* number of button presses so far
    audio       \* last command sent to the ambient audio ("Play" / "Pause")

\* Registry persistence (instance.rs:353-389) and the platform descriptor
\* (instance.rs:15-44).
VARIABLES
    mem,        \* the Vec<Instance> handed to perform_save_instances
    disk,       \* instances.json: whether it exists, and its content
    spc,        \* position of save_instances: "idle", "writing", "crashed"
    sbuf,       \* what to_writer_pretty has still to write
    sres,       \* Result of the last save_instances ("" before the first)
    sret,       \* what perform_save_instances gave its caller
    lret,       \* the last load_instances: the file it read and its Result
    prev,       \* what load_instances would have returned when the save began
    desc        \* the last InstanceType asked for archive() and executable()

\* The process launcher, play() (instance.rs:297-345).
VARIABLES
    lpc,        \* position of play()
    logs,       \* the logs directory and the two log files of this launch
    proc,       \* the launched process: started, captured output, status
    lres        \* Result of play() ("" until it returns)

corevars == <<instances, channel, ops, clicks, audio>>
regvars == <<mem, disk, spc, sbuf, sres, sret, lret, prev, desc>>
logvars == <<lpc, logs, proc, lres>>

vars == <<instances, channel, ops, clicks, audio,
          mem, disk, spc, sbuf, sres, sret, lret, prev, desc,
          lpc, logs, proc, lres>>

----------------------------------------------------------------------------
\* InstanceState (instance.rs:70-75)

Ready == [tag |-> "Ready", status |-> ""]
Playing == [tag |-> "Playing", status |-> ""]
Working(s) == [tag |-> "Working", status |-> s]

is_playing(s) == s.tag = "Playing"
is_working(s) == s.tag = "Working"
is_ready(s) == s.tag = "Ready"

\* impl Default for InstanceState (instance.rs:89-93)
DefaultState == Ready

\* Instance::new (instance.rs:105-127); version 0 is the installed version.
NewInstance(n) ==
    [name |-> n, path |-> n, version |-> 0, state |-> DefaultState]

----------------------------------------------------------------------------
\* Messages.  `op` is a history tag (index into ops, 0 = none) that no handler
\* reads; it only records which operation produced the message.

NoState == [tag |-> "none", status |-> ""]

\* Message::InstanceMessage(key, InstanceMessage) (instance.rs:95-102)
InstanceMessage(k, m, dbg, s, o) ==
    [type |-> "InstanceMessage", key |-> k, msg |-> m, debug |-> dbg,
     state |-> s, res |-> "", op |-> o]

StateChanged(k, s, o) == InstanceMessage(k, "StateChanged", FALSE, s, o)

\* Message::MusicMessage(MusicCommand) (instance.rs:290, 294)
MusicMessage(c, o) ==
    [type |-> "MusicMessage", key |-> "", msg |-> c, debug |-> FALSE,
     state |-> NoState, res |-> "", op |-> o]

\* Message::Updated(Option<Instance>) (instance.rs:169)
Updated(k, r, o) ==
    [type |-> "Updated", key |-> k, msg |-> "", debug |-> FALSE,
     state |-> NoState, res |-> r, op |-> o]

\* Message::Deleted(Option<PathBuf>) (instance.rs:176)
Deleted(k, r, o) ==
    [type |-> "Deleted", key |-> k, msg |-> "", debug |-> FALSE,
     state |-> NoState, res |-> r, op |-> o]

\* Message::Dummy(()) (instance.rs:173)
Dummy(o) ==
    [type |-> "Dummy", key |-> "", msg |-> "", debug |-> FALSE,
     state |-> NoState, res |-> "", op |-> o]

IsMusic(m) == m.type = "MusicMessage"

\* crate::send_message and the runtime's result sender.  Instance messages
\* are enqueued on the command channel of the control thread; a
\* MusicMessage is for the ambient-audio collaborator and never reaches an
\* instance.
send_message(ch, sent) == ch \o SelectSeq(sent, LAMBDA m : ~IsMusic(m))

\* The audio collaborator's last command after the messages in sent.
music(a, sent) ==
    LET cmds == SelectSeq(sent, IsMusic)
    IN IF cmds = <<>> THEN a ELSE cmds[Len(cmds)].msg

----------------------------------------------------------------------------
\* Background operations.  An op record is the pair of futures that
\* Instance::update puts in one Command::batch: the dummy() future that
\* carries the transient state, and the worker future.  pc is the worker's
\* position and result the value play() returned to perform_play, held until
\* perform_play returns.  The counters (pauses, resumes, readies, updateds)
\* and the flags (ok, applied, completed) are history: what the op has sent,
\* whether its external effect took place (process started, update done,
\* folder opened, directory removed) and what the control thread has
\* applied; no step reads them as program state.

NewOp(kind, k, inst, dummy) ==
    [kind |-> kind, key |-> k, path |-> inst.path,
     before |-> inst.state, dummy |-> dummy, pc |-> "start",
     ok |-> FALSE, result |-> "",
     pauses |-> 0, resumes |-> 0, readies |-> 0, updateds |-> 0,
     applied |-> FALSE, completed |-> FALSE]

OpIds == 1..Len(ops)

\* Instance::view (instance.rs:193-204, 225-235): which buttons carry an
\* on_press for an instance in state s.  No button is shown while Working.
view(s, button) ==
    IF is_working(s) THEN FALSE
    ELSE IF button = "Folder" THEN TRUE
    ELSE is_ready(s)

update_self_eager(inst, m) ==
    IF m.msg = "StateChanged" THEN [inst EXCEPT !.state = m.state]
    ELSE IF m.msg = "Play" THEN [inst EXCEPT !.state = Playing]
    ELSE inst

\* Instance::update, the effect on self (instance.rs:129-183): only the
\* StateChanged arm assigns self.state.
update_self(inst, m) ==
    IF m.msg = "StateChanged" THEN [inst EXCEPT !.state = m.state] ELSE inst

\* Instance::update, the state carried by the dummy() future of the batch
\* (instance.rs:136-141 and 161-168).
dummy_state(msg) ==
    IF msg = "Play" THEN Playing ELSE Working("Updating")

\* ESLauncher::update, InstanceMessage arm (main.rs:95-99): the message is
\* handed to the instance when the lookup finds one, and dropped otherwise.
get_mut(reg, k) == k \in DOMAIN reg

----------------------------------------------------------------------------
\* Values of the persistence and launcher state.

\* Option<&'static str> (instance.rs:25, 35)
None == [some |-> FALSE, val |-> ""]
Some(v) == [some |-> TRUE, val |-> v]

\* A file of the host: absent, or present with a content.
NoFile == [exists |-> FALSE, content |-> <<>>]
File(c) == [exists |-> TRUE, content |-> c]

\* Result<Vec<Instance>> (instance.rs:374)
Ok(l) == [kind |-> "Ok", list |-> l]
Err == [kind |-> "Err", list |-> <<>>]
NoResult == [kind |-> "", list |-> <<>>]

\* Nothing is being saved, loaded or asked.
RegIdle ==
    /\ mem = <<>>
    /\ disk = NoFile
    /\ spc = "idle"
    /\ sbuf = <<>>
    /\ sres = ""
    /\ sret = ""
    /\ lret = [read |-> FALSE, outcome |-> "", file |-> NoFile, res |-> NoResult]
    /\ prev = NoResult
    /\ desc = [type |-> "", archive |-> None, executable |-> None]

\* No play() is being followed step by step.
LogIdle ==
    /\ lpc = "idle"
    /\ logs = [dir |-> FALSE, out |-> NoFile, err |-> NoFile]
    /\ proc = [started |-> FALSE, failed |-> FALSE, exited |-> FALSE,
               stdout |-> <<>>, stderr |-> <<>>, success |-> FALSE]
    /\ lres = ""

\* No instance is installed and no command has been given.
CoreIdle ==
    /\ instances = [n \in {} |-> NewInstance(n)]
    /\ channel = <<>>
    /\ ops = <<>>
    /\ clicks = 0
    /\ audio = "Play"

----------------------------------------------------------------------------
Init ==
    /\ instances = [n \in Names |-> NewInstance(n)]
    /\ channel = <<>>
    /\ ops = <<>>
    /\ clicks = 0
    /\ audio = "Play"
    /\ RegIdle
    /\ LogIdle

\* The user presses an enabled button of instance k; the widget emits the
\* InstanceMessage bound by view.
Click(k, button, dbg) ==
    /\ clicks < MaxClicks
    /\ k \in DOMAIN instances
    /\ view(instances[k].state, button)
    /\ button = "Play" \/ dbg = FALSE
    /\ clicks' = clicks + 1
    /\ channel' = Append(channel, InstanceMessage(k, button, dbg, NoState, 0))
    /\ UNCHANGED <<instances, ops, audio>>
    /\ UNCHANGED <<regvars, logvars>>

\* ESLauncher::update on InstanceMessage(k, Play(do_debug)) or
\* InstanceMessage(k, Update): Instance::update returns the batch
\* [dummy -> StateChanged(transient), worker] (instance.rs:131-171).
DispatchStart ==
    /\ channel # <<>>
    /\ LET m == Head(channel) IN
        /\ m.type = "InstanceMessage"
        /\ m.msg \in {"Play", "Update"}
        /\ get_mut(instances, m.key)
        /\ instances' = [instances EXCEPT ![m.key] = update_self(@, m)]
        /\ ops' = Append(ops, NewOp(m.msg, m.key, instances[m.key],
                                    "pending"))
        /\ channel' = Tail(channel)
    /\ UNCHANGED <<clicks, audio>>
    /\ UNCHANGED <<regvars, logvars>>

\* ESLauncher::update on InstanceMessage(k, Folder) or
\* InstanceMessage(k, Delete): a single worker future (instance.rs:172-177).
DispatchSideEffect ==
    /\ channel # <<>>
    /\ LET m == Head(channel) IN
        /\ m.type = "InstanceMessage"
        /\ m.msg \in {"Folder", "Delete"}
        /\ get_mut(instances, m.key)
        /\ instances' = [instances EXCEPT ![m.key] = update_self(@, m)]
        /\ ops' = Append(ops, NewOp(m.msg, m.key, instances[m.key],
                                    "none"))
        /\ channel' = Tail(channel)
    /\ UNCHANGED <<clicks, audio>>
    /\ UNCHANGED <<regvars, logvars>>

\* ESLauncher::update on InstanceMessage(k, StateChanged(s))
\* (instance.rs:178-181): self.state = s, Command::none().
DispatchStateChanged ==
    /\ channel # <<>>
    /\ LET m == Head(channel) IN
        /\ m.type = "InstanceMessage"
        /\ m.msg = "StateChanged"
        /\ get_mut(instances, m.key)
        /\ instances' = [instances EXCEPT ![m.key] = update_self(@, m)]
        /\ ops' = IF m.op = 0 THEN ops
                  ELSE IF is_ready(m.state)
                       THEN [ops EXCEPT ![m.op].completed = TRUE]
                       ELSE [ops EXCEPT ![m.op].applied = TRUE]
        /\ channel' = Tail(channel)
    /\ UNCHANGED <<clicks, audio>>
    /\ UNCHANGED <<regvars, logvars>>

\* ESLauncher::update on an InstanceMessage whose key finds no instance
\* (main.rs:96, 101): nothing happens.
DispatchMissing ==
    /\ channel # <<>>
    /\ Head(channel).type = "InstanceMessage"
    /\ ~get_mut(instances, Head(channel).key)
    /\ channel' = Tail(channel)
    /\ UNCHANGED <<instances, ops, clicks, audio>>
    /\ UNCHANGED <<regvars, logvars>>

\* ESLauncher::update on Updated(Option<Instance>): Some(instance) puts the
\* updated instance, Ready, in the registry; None changes nothing.
DispatchUpdated ==
    /\ channel # <<>>
    /\ LET m == Head(channel) IN
        /\ m.type = "Updated"
        /\ instances' =
              IF m.res = "Some" /\ get_mut(instances, m.key)
              THEN [instances EXCEPT ![m.key] =
                        [@ EXCEPT !.version = 1, !.state = Ready]]
              ELSE instances
        /\ channel' = Tail(channel)
    /\ UNCHANGED <<ops, clicks, audio>>
    /\ UNCHANGED <<regvars, logvars>>

\* ESLauncher::update on Deleted(Option<PathBuf>): Some(path) removes the
\* instance installed at path from the registry; None changes nothing.
DispatchDeleted ==
    /\ channel # <<>>
    /\ LET m == Head(channel) IN
        /\ m.type = "Deleted"
        /\ instances' =
              IF m.res = "Some"
              THEN [n \in {x \in DOMAIN instances : instances[x].path # m.key}
                        |-> instances[n]]
              ELSE instances
        /\ channel' = Tail(channel)
    /\ UNCHANGED <<ops, clicks, audio>>
    /\ UNCHANGED <<regvars, logvars>>

\* ESLauncher::update on Dummy(()): nothing.
DispatchDummy ==
    /\ channel # <<>>
    /\ Head(channel).type = "Dummy"
    /\ channel' = Tail(channel)
    /\ UNCHANGED <<instances, ops, clicks, audio>>
    /\ UNCHANGED <<regvars, logvars>>

----------------------------------------------------------------------------
\* Steps of the background futures.

IsReadyMsg(m) ==
    m.type = "InstanceMessage" /\ m.msg = "StateChanged" /\ is_ready(m.state)
IsPauseMsg(m) == m.type = "MusicMessage" /\ m.msg = "Pause"
IsResumeMsg(m) == m.type = "MusicMessage" /\ m.msg = "Play"
IsUpdatedMsg(m) == m.type = "Updated"

\* History bookkeeping of the messages an op sends in one step.
Tally(r, sent) ==
    [r EXCEPT !.readies = @ + Len(SelectSeq(sent, IsReadyMsg)),
              !.pauses = @ + Len(SelectSeq(sent, IsPauseMsg)),
              !.resumes = @ + Len(SelectSeq(sent, IsResumeMsg)),
              !.updateds = @ + Len(SelectSeq(sent, IsUpdatedMsg))]

\* dummy() completes and the runtime sends the mapped message
\* (instance.rs:136-141, 161-168, 240).
DummyDone(o) ==
    /\ ops[o].dummy = "pending"
    /\ LET sent == <<StateChanged(ops[o].key, dummy_state(ops[o].kind), o)>> IN
        /\ channel' = send_message(channel, sent)
        /\ ops' = [ops EXCEPT ![o] = Tally([@ EXCEPT !.dummy = "sent"], sent)]
    /\ UNCHANGED <<instances, clicks, audio>>
    /\ UNCHANGED <<regvars, logvars>>

\* Ways play() can go up to Command::output (instance.rs:297-324).
LaunchOutcomes == {"DirFail", "OutFileFail", "ErrFileFail", "StartFail", "Started"}
\* Ways play() can go once the process has exited (instance.rs:326-340).
ExitOutcomes == {"ExitOk", "ExitFail", "WriteFail"}

\* play(), the Result it returns for each outcome: `?` on create_dir_all,
\* File::create and write_all gives Err, everything else Ok(()), a process
\* that did not start included (instance.rs:300, 307, 311, 328-329, 342-344).
play_result(outcome) ==
    IF outcome \in {"DirFail", "OutFileFail", "ErrFileFail", "WriteFail"}
    THEN "Err" ELSE "Ok"

perform_play_tail_early_return(result, o) ==
    IF result = "Err" THEN <<>> ELSE <<MusicMessage("Play", o)>>

\* perform_play, what it sends after play() returned: an Err is logged and
\* execution falls through to the second send_message (instance.rs:291-294).
perform_play_tail(result, o) == <<MusicMessage("Play", o)>>

\* perform_play from its first statement, send_message(Pause), through
\* play() up to the start of the process (instance.rs:290-291, 297-324).
PlayLaunch(o, outcome) ==
    /\ ops[o].kind = "Play"
    /\ ops[o].pc = "start"
    /\ LET sent == <<MusicMessage("Pause", o)>> IN
        /\ channel' = send_message(channel, sent)
        /\ audio' = music(audio, sent)
        /\ ops' = [ops EXCEPT ![o] =
                     Tally(IF outcome = "Started"
                           THEN [@ EXCEPT !.ok = TRUE, !.pc = "running"]
                           ELSE [@ EXCEPT !.result = play_result(outcome),
                                          !.pc = "returned"], sent)]
    /\ UNCHANGED <<instances, clicks>>
    /\ UNCHANGED <<regvars, logvars>>

\* The launched process exits; play() writes the logs and returns
\* (instance.rs:325-344), perform_play sends what is left and returns
\* (instance.rs:291-295), and the runtime sends the mapped result
\* (instance.rs:149-154).
PlayExit(o, outcome) ==
    /\ ops[o].kind = "Play"
    /\ ops[o].pc = "running"
    /\ LET sent == perform_play_tail(play_result(outcome), o)
                   \o <<StateChanged(ops[o].key, Ready, o)>> IN
        /\ channel' = send_message(channel, sent)
        /\ audio' = music(audio, sent)
        /\ ops' = [ops EXCEPT ![o] = Tally([@ EXCEPT !.pc = "done"], sent)]
    /\ UNCHANGED <<instances, clicks>>
    /\ UNCHANGED <<regvars, logvars>>

\* perform_play after play() returned without having started a process
\* (instance.rs:291-295), and the runtime sending the mapped result
\* (instance.rs:149-154).
PlayFinish(o) ==
    /\ ops[o].kind = "Play"
    /\ ops[o].pc = "returned"
    /\ LET sent == perform_play_tail(ops[o].result, o)
                   \o <<StateChanged(ops[o].key, Ready, o)>> IN
        /\ channel' = send_message(channel, sent)
        /\ audio' = music(audio, sent)
        /\ ops' = [ops EXCEPT ![o] =
                     Tally([@ EXCEPT !.result = "", !.pc = "done"], sent)]
    /\ UNCHANGED <<instances, clicks>>
    /\ UNCHANGED <<regvars, logvars>>

perform_update_sends_never(name, res, o) == <<>>

\* perform_update, the message it sends itself: StateChanged(Ready) in the
\* Err arm only (instance.rs:276-285).
perform_update_sends(name, res, o) ==
    IF res = "Err" THEN <<StateChanged(name, Ready, o)>> ELSE <<>>

\* perform_update, the value it returns (instance.rs:277, 284).
perform_update_result(res) == IF res = "Ok" THEN "Some" ELSE "None"

\* perform_update (instance.rs:274-287) runs update::update_instance to its
\* end and returns; the runtime sends Message::Updated(result)
\* (instance.rs:169).
UpdateRun(o, res) ==
    /\ ops[o].kind = "Update"
    /\ ops[o].pc = "start"
    /\ LET sent == perform_update_sends(ops[o].key, res, o)
                   \o <<Updated(ops[o].key, perform_update_result(res), o)>> IN
        /\ channel' = send_message(channel, sent)
        /\ ops' = [ops EXCEPT ![o] =
                     Tally([@ EXCEPT !.ok = (res = "Ok"),
                                     !.pc = "done"], sent)]
    /\ UNCHANGED <<instances, clicks, audio>>
    /\ UNCHANGED <<regvars, logvars>>

folder_completion_as_ready(k, o) == StateChanged(k, Ready, o)

\* The message the runtime makes of open_folder's completion
\* (instance.rs:173): Message::Dummy.
folder_completion(k, o) == Dummy(o)

\* open_folder (instance.rs:257-262): open::that succeeds or fails; a
\* failure is logged.  Then the runtime sends the mapped result.
OpenFolder(o, ok) ==
    /\ ops[o].kind = "Folder"
    /\ ops[o].pc = "start"
    /\ LET sent == <<folder_completion(ops[o].key, o)>> IN
        /\ channel' = send_message(channel, sent)
        /\ ops' = [ops EXCEPT ![o] =
                     Tally([@ EXCEPT !.ok = ok, !.pc = "done"], sent)]
    /\ UNCHANGED <<instances, clicks, audio>>
    /\ UNCHANGED <<regvars, logvars>>

delete_result_always_some(ok) == "Some"

\* delete, the value it returns (instance.rs:265-271).
delete_result(ok) == IF ok THEN "Some" ELSE "None"

\* delete (instance.rs:264-272): remove_dir_all succeeds or fails.  Then the
\* runtime sends Message::Deleted(result) (instance.rs:176).
DeleteRun(o, ok) ==
    /\ ops[o].kind = "Delete"
    /\ ops[o].pc = "start"
    /\ LET sent == <<Deleted(ops[o].path, delete_result(ok), o)>> IN
        /\ channel' = send_message(channel, sent)
        /\ ops' = [ops EXCEPT ![o] =
                     Tally([@ EXCEPT !.ok = ok, !.pc = "done"], sent)]
    /\ UNCHANGED <<instances, clicks, audio>>
    /\ UNCHANGED <<regvars, logvars>>

----------------------------------------------------------------------------
Buttons == {"Play", "Update", "Folder", "Delete"}

Next ==
    \/ \E k \in Names, b \in Buttons, dbg \in BOOLEAN : Click(k, b, dbg)
    \/ DispatchStart
    \/ DispatchSideEffect
    \/ DispatchStateChanged
    \/ DispatchMissing
    \/ DispatchUpdated
    \/ DispatchDeleted
    \/ DispatchDummy
    \/ \E o \in OpIds : DummyDone(o)
    \/ \E o \in OpIds, out \in LaunchOutcomes : PlayLaunch(o, out)
    \/ \E o \in OpIds, out \in ExitOutcomes : PlayExit(o, out)
    \/ \E o \in OpIds : PlayFinish(o)
    \/ \E o \in OpIds, res \in {"Ok", "Err"} : UpdateRun(o, res)
    \/ \E o \in OpIds, ok \in BOOLEAN : OpenFolder(o, ok)
    \/ \E o \in OpIds, ok \in BOOLEAN : DeleteRun(o, ok)

Spec == Init /\ [][Next]_vars

----------------------------------------------------------------------------
\* Vocabulary of the properties.

StateChanging == {"Play", "Update"}

\* The state-changing operations of instance k whose worker future has been
\* scheduled and has not completed.
InFlight(k) ==
    {o \in OpIds : /\ ops[o].key = k
                   /\ ops[o].kind \in StateChanging
                   /\ ops[o].pc # "done"}

\* Some future scheduled for k has not completed yet.
Busy(k) ==
    \E o \in OpIds : /\ ops[o].key = k
                     /\ (ops[o].pc # "done" \/ ops[o].dummy = "pending")

\* Some message addressed to k is waiting in the channel.
PendingFor(k) == \E i \in 1..Len(channel) : channel[i].key = k

\* The step is ESLauncher::update consuming the message at the head of the
\* channel (no other step shortens the channel).
Dispatching == Len(channel') < Len(channel)

\* The step is ESLauncher::update handing InstanceMessage(k, msg) to an
\* instance of the registry.
Handling(msg) ==
    /\ channel # <<>>
    /\ Head(channel).type = "InstanceMessage"
    /\ Head(channel).msg = msg
    /\ get_mut(instances, Head(channel).key)
    /\ Dispatching

\* The messages in the channel that operation o produced.
SentBy(o) == {i \in 1..Len(channel) : channel[i].op = o}

----------------------------------------------------------------------------
\* C1: for every instance, at most one state-changing background operation
\* (perform_play or perform_update) is in flight at any time, also when Play
\* or Update is issued twice before any StateChanged has been delivered.
C1_AtMostOneInFlight ==
    \A k \in Names : Cardinality(InFlight(k)) <= 1

\* C2: every transient state returns to Ready: once every future scheduled
\* for an instance has completed and every message addressed to it has been
\* delivered, the instance is Ready, whatever the delivery order was.
C2_QuiescentIsReady ==
    \A k \in DOMAIN instances :
        (~Busy(k) /\ ~PendingFor(k)) => is_ready(instances[k].state)

\* C3: accepting Play or Update on a Ready instance transitions it
\* immediately: when Instance::update returns, the state is Playing
\* (for Play) or Working{"Updating"} (for Update).
C3_ImmediateTransition ==
    [][\A msg \in StateChanging :
          (Handling(msg) /\ is_ready(instances[Head(channel).key].state))
          => /\ get_mut(instances', Head(channel).key)
             /\ instances'[Head(channel).key].state = dummy_state(msg)]_vars

\* C4: a Play or Update delivered while the addressed instance is not Ready
\* is rejected: no background operation is scheduled, no message is
\* emitted and the instance is unchanged.
C4_RejectedWhileNotReady ==
    [][\A msg \in StateChanging :
          (Handling(msg) /\ ~is_ready(instances[Head(channel).key].state))
          => /\ ops' = ops
             /\ instances' = instances
             /\ channel' = Tail(channel)]_vars

\* C5: causal order: the StateChanged(Ready) completion of an operation is
\* applied only after the transition into Playing/Working scheduled by the
\* same operation has been applied, and the operation's background work
\* does not begin before that transition is applied.
C5_CausalOrder ==
    \A o \in OpIds :
        ops[o].kind \in StateChanging =>
            /\ ops[o].completed => ops[o].applied
            /\ ops[o].pc # "start" => ops[o].applied

\* C6: an instance's state never changes directly from Playing to Working
\* or from Working to Playing.
C6_NoDirectPlayingWorking ==
    [][\A k \in (DOMAIN instances) \cap (DOMAIN instances') :
          /\ ~(is_playing(instances[k].state) /\ is_working(instances'[k].state))
          /\ ~(is_working(instances[k].state) /\ is_playing(instances'[k].state))
      ]_vars

C8_ExactlyOneReady ==
    \A o \in OpIds :
        (ops[o].kind \in StateChanging /\ ops[o].pc = "done")
        => ops[o].readies = 1

\* C8 (amended): an operation never produces more than one
\* StateChanged(Ready); a completed Play produces exactly one; a completed
\* Update produces exactly one Updated message, and exactly one
\* StateChanged(Ready) when it failed and none when it succeeded.
C8_ReadyUnlessUpdateSucceeded ==
    \A o \in OpIds :
        ops[o].kind \in StateChanging =>
            /\ ops[o].readies <= 1
            /\ ops[o].updateds <= 1
            /\ ops[o].pc = "done" =>
                  /\ ops[o].kind = "Play" =>
                        ops[o].readies = 1 /\ ops[o].updateds = 0
                  /\ ops[o].kind = "Update" =>
                        /\ ops[o].updateds = 1
                        /\ ops[o].readies = IF ops[o].ok THEN 0 ELSE 1

\* C8 witness: a failed Update and a successful Update have both completed.
C8_Witness ==
    /\ \E o \in OpIds :
          /\ ops[o].kind = "Update"
          /\ ops[o].pc = "done"
          /\ ~ops[o].ok
          /\ ops[o].readies = 1
    /\ \E o \in OpIds :
          /\ ops[o].kind = "Update"
          /\ ops[o].pc = "done"
          /\ ops[o].ok
          /\ ops[o].readies = 0

\* C9: Delete causes no state transition and reports its outcome as a
\* value: Some(path) if and only if remove_dir_all succeeded; on failure
\* the registry is left as it was, and an instance leaves the registry only
\* after a reported success.
C9_DeleteReportsOutcome ==
    /\ [](\A i \in 1..Len(channel) :
            channel[i].type = "Deleted" =>
                /\ ops[channel[i].op].kind = "Delete"
                /\ channel[i].key = ops[channel[i].op].path
                /\ (channel[i].res = "Some") <=> ops[channel[i].op].ok)
    /\ [](\A k \in Names :
            ~get_mut(instances, k) =>
                \E o \in OpIds : /\ ops[o].kind = "Delete"
                                 /\ ops[o].path = k
                                 /\ ops[o].ok
                                 /\ ops[o].pc = "done"
                                 /\ SentBy(o) = {})
    /\ [][/\ Handling("Delete") => instances' = instances
          /\ (\E o \in OpIds : ops[o].kind = "Delete" /\ ops'[o].pc # ops[o].pc)
                => instances' = instances
          /\ (/\ channel # <<>>
              /\ Head(channel).type = "Deleted"
              /\ Head(channel).res = "None"
              /\ Dispatching) => instances' = instances]_vars

\* C9 witness: one Delete failed, was reported, and left the instance in
\* the registry for a second Delete, which succeeded and removed it.
C9_Witness ==
    \E o1, o2 \in OpIds :
        /\ ops[o1].kind = "Delete" /\ ops[o1].pc = "done" /\ ~ops[o1].ok
        /\ ops[o2].kind = "Delete" /\ ops[o2].pc = "done" /\ ops[o2].ok
        /\ ops[o1].key = ops[o2].key
        /\ SentBy(o1) = {} /\ SentBy(o2) = {}
        /\ ~get_mut(instances, ops[o2].key)

\* C10: RevealFolder has no effect on the state machine: handling it in any
\* instance state leaves the state and the identity fields unchanged, it
\* produces no StateChanged command, and a failure to open the folder
\* changes no instance and is not reported to the caller (the completion is
\* the same Dummy message as on success).
C10_FolderNoEffect ==
    /\ [](\A o \in OpIds :
            ops[o].kind = "Folder" =>
                /\ ops[o].readies = 0
                /\ \A i \in SentBy(o) : channel[i].type = "Dummy")
    /\ [][/\ Handling("Folder") => instances' = instances
          /\ (\E o \in OpIds : ops[o].kind = "Folder" /\ ops'[o].pc # ops[o].pc)
                => instances' = instances
          /\ (/\ channel # <<>>
              /\ Head(channel).type = "Dummy"
              /\ Dispatching) => instances' = instances]_vars

\* C10 witness: a Folder command was handled while the instance was Working,
\* opening the folder failed, and the completion has been consumed.
C10_Witness ==
    \E o \in OpIds :
        /\ ops[o].kind = "Folder"
        /\ is_working(ops[o].before)
        /\ ops[o].pc = "done"
        /\ ~ops[o].ok
        /\ SentBy(o) = {}

----------------------------------------------------------------------------
\* Registry persistence: perform_save_instances, save_instances and
\* load_instances (instance.rs:353-389), and the platform descriptor
\* (instance.rs:15-44).

MaxLen == 2

InstanceTypes == {"MacOS", "Windows", "Linux", "AppImage", "Unknown"}

\* InstanceType::archive (instance.rs:25-33)
archive_unknown_some(t) ==
    CASE t = "MacOS" -> Some("mac")
      [] t = "Windows" -> Some("win64")
      [] t = "Linux" -> Some(".tar.gz")
      [] t = "AppImage" -> Some(".AppImage")
      [] t = "Unknown" -> Some("")

archive(t) ==
    CASE t = "MacOS" -> Some("mac")
      [] t = "Windows" -> Some("win64")
      [] t = "Linux" -> Some(".tar.gz")
      [] t = "AppImage" -> Some(".AppImage")
      [] t = "Unknown" -> None

\* InstanceType::executable (instance.rs:35-43)
executable(t) ==
    CASE t = "MacOS" -> Some("Endless Sky.app/Contents/MacOS/Endless Sky")
      [] t = "Windows" -> Some("EndlessSky.exe")
      [] t = "Linux" -> Some("endless-sky")
      [] t = "AppImage" -> Some("endless-sky.AppImage")
      [] t = "Unknown" -> None

\* The fields of struct Instance (instance.rs:46-68) apart from the button
\* states: two installed instances that differ in every persisted field.
StoredNames == {"a", "b"}

Stored(n, s) ==
    IF n = "a"
    THEN [path |-> "instances/a", executable |-> "endless-sky", name |-> "a",
          version |-> "0.9.12", instance_type |-> "Linux",
          source |-> "Release", state |-> s]
    ELSE [path |-> "instances/b", executable |-> "EndlessSky.exe", name |-> "b",
          version |-> "continuous", instance_type |-> "Windows",
          source |-> "PR", state |-> s]

States == {Ready, Playing, Working("Updating")}

StoredInstances == {Stored(n, s) : n \in StoredNames, s \in States}

\* Vec<Instance> of at most MaxLen entries
Lists == UNION {[1..n -> StoredInstances] : n \in 0..MaxLen}

\* derive(Serialize) with #[serde(skip)] on the buttons and on state
\* (instance.rs:46-68): the six persisted fields
serialize_drops_version(inst) ==
    [path |-> inst.path, executable |-> inst.executable, name |-> inst.name,
     version |-> "", instance_type |-> inst.instance_type,
     source |-> inst.source]

serialize(inst) ==
    [path |-> inst.path, executable |-> inst.executable, name |-> inst.name,
     version |-> inst.version, instance_type |-> inst.instance_type,
     source |-> inst.source]

\* derive(Deserialize): a skipped field takes Default::default()
\* (instance.rs:57-58, 89-93)
deserialize(j) ==
    [path |-> j.path, executable |-> j.executable, name |-> j.name,
     version |-> j.version, instance_type |-> j.instance_type,
     source |-> j.source, state |-> DefaultState]

\* The document is a sequence of tokens, written and read in order.
NoObject ==
    [path |-> "", executable |-> "", name |-> "", version |-> "",
     instance_type |-> "", source |-> ""]
Token(t, v) == [t |-> t, v |-> v]
Open == Token("[", NoObject)
Close == Token("]", NoObject)
Junk == Token("junk", NoObject)
Object(inst) == Token("object", serialize(inst))

\* serde_json::to_writer_pretty(file, &InstancesContainer(instances))
\* (instance.rs:353-354, 370): the newtype is written as its array
to_writer_pretty(list) ==
    <<Open>> \o [i \in 1..Len(list) |-> Object(list[i])] \o <<Close>>

\* serde_json::from_reader(file) as InstancesContainer (instance.rs:383):
\* an array of objects and nothing else, or an error
from_reader(c) ==
    IF /\ Len(c) >= 2
       /\ c[1] = Open
       /\ c[Len(c)] = Close
       /\ \A i \in 2..(Len(c) - 1) : c[i].t = "object"
    THEN Ok([i \in 1..(Len(c) - 2) |-> deserialize(c[i + 1].v)])
    ELSE Err

\* What load_instances meets on its way to the file (instance.rs:375-381).
LoadOutcomes == {"NoDir", "OpenFail", "Opened"}

\* load_instances (instance.rs:374-389)
load_instances_lenient(d, outcome) ==
    IF outcome = "NoDir" THEN Err
    ELSE IF d.exists
         THEN IF outcome = "OpenFail" THEN Err
              ELSE IF from_reader(d.content).kind = "Ok"
                   THEN from_reader(d.content) ELSE Ok(<<>>)
         ELSE Ok(<<>>)

load_instances(d, outcome) ==
    IF outcome = "NoDir" THEN Err
    ELSE IF d.exists
         THEN IF outcome = "OpenFail" THEN Err ELSE from_reader(d.content)
         ELSE Ok(<<>>)

\* perform_save_instances (instance.rs:356-360): the Err is logged; the
\* function returns ()
perform_save_instances_propagates(res) == res

perform_save_instances(res) == "unit"

\* Documents found at start-up: none, one left by an earlier save, or a file
\* that is not a registry document.
SavedDocs == {to_writer_pretty(l) : l \in Lists}
BrokenDocs ==
    {<<>>, <<Open>>, <<Open, Object(Stored("a", Ready))>>, <<Junk>>,
     <<Open, Junk, Close>>}
Disks == {NoFile} \cup {File(c) : c \in SavedDocs \cup BrokenDocs}

InitPersist ==
    /\ CoreIdle
    /\ LogIdle
    /\ mem \in Lists
    /\ disk \in Disks
    /\ spc = "idle"
    /\ sbuf = <<>>
    /\ sres = ""
    /\ sret = ""
    /\ lret = [read |-> FALSE, outcome |-> "", file |-> NoFile, res |-> NoResult]
    /\ prev = NoResult
    /\ desc = [type |-> "", archive |-> None, executable |-> None]

SaveOutcomes == {"NoDir", "CreateFail", "Created"}

\* save_instances up to and including fs::File::create (instance.rs:362-368):
\* create truncates an existing file
SaveBegin(outcome) ==
    /\ spc \in {"idle", "crashed"}
    /\ lret' = [read |-> FALSE, outcome |-> "", file |-> NoFile, res |-> NoResult]
    /\ IF outcome = "Created"
       THEN /\ disk' = File(<<>>)
            /\ sbuf' = to_writer_pretty(mem)
            /\ spc' = "writing"
            /\ sres' = ""
            /\ sret' = ""
            /\ prev' = IF disk.exists THEN load_instances(disk, "Opened")
                       ELSE NoResult
       ELSE /\ spc' = "idle"
            /\ sres' = "Err"
            /\ sret' = perform_save_instances("Err")
            /\ prev' = NoResult
            /\ UNCHANGED <<disk, sbuf>>
    /\ UNCHANGED <<mem, desc>>
    /\ UNCHANGED <<corevars, logvars>>

\* to_writer_pretty writes the next piece to the file (instance.rs:370)
SaveWrite ==
    /\ spc = "writing"
    /\ sbuf # <<>>
    /\ disk' = File(disk.content \o <<Head(sbuf)>>)
    /\ sbuf' = Tail(sbuf)
    /\ UNCHANGED <<mem, spc, sres, sret, lret, prev, desc>>
    /\ UNCHANGED <<corevars, logvars>>

\* a write fails: `?` returns the error (instance.rs:370), which
\* perform_save_instances logs (instance.rs:357-359)
SaveFail ==
    /\ spc = "writing"
    /\ sbuf # <<>>
    /\ spc' = "idle"
    /\ sbuf' = <<>>
    /\ sres' = "Err"
    /\ sret' = perform_save_instances("Err")
    /\ UNCHANGED <<mem, disk, lret, prev, desc>>
    /\ UNCHANGED <<corevars, logvars>>

\* everything is written: Ok(()) (instance.rs:371)
SaveEnd ==
    /\ spc = "writing"
    /\ sbuf = <<>>
    /\ spc' = "idle"
    /\ sres' = "Ok"
    /\ sret' = perform_save_instances("Ok")
    /\ UNCHANGED <<mem, disk, sbuf, lret, prev, desc>>
    /\ UNCHANGED <<corevars, logvars>>

\* the process is killed, or the machine stops, while the save is writing
Crash ==
    /\ spc = "writing"
    /\ spc' = "crashed"
    /\ sbuf' = <<>>
    /\ UNCHANGED <<mem, disk, sres, sret, lret, prev, desc>>
    /\ UNCHANGED <<corevars, logvars>>

\* load_instances, when no save is writing (instance.rs:374-389)
Load(outcome) ==
    /\ spc \in {"idle", "crashed"}
    /\ lret' = [read |-> TRUE, outcome |-> outcome, file |-> disk,
                res |-> load_instances(disk, outcome)]
    /\ UNCHANGED <<mem, disk, spc, sbuf, sres, sret, prev, desc>>
    /\ UNCHANGED <<corevars, logvars>>

\* a caller asks an InstanceType for its archive and executable names
Describe(t) ==
    /\ desc' = [type |-> t, archive |-> archive(t), executable |-> executable(t)]
    /\ UNCHANGED <<mem, disk, spc, sbuf, sres, sret, lret, prev>>
    /\ UNCHANGED <<corevars, logvars>>

NextPersist ==
    \/ \E outcome \in SaveOutcomes : SaveBegin(outcome)
    \/ SaveWrite
    \/ SaveFail
    \/ SaveEnd
    \/ Crash
    \/ \E outcome \in LoadOutcomes : Load(outcome)
    \/ \E t \in InstanceTypes : Describe(t)

SpecPersist == InitPersist /\ [][NextPersist]_vars

----------------------------------------------------------------------------
\* Properties of the persistence, checked under SpecPersist.

\* What a load gives back for a list that was saved whole.
Reloaded(list) == [i \in 1..Len(list) |-> deserialize(serialize(list[i]))]

\* A document is well formed when it is what a save writes for some list.
WellFormed(c) == c \in SavedDocs

\* A load that came after the last save_instances returned Ok(()) and that
\* reached and opened the file.
LoadedAfterSave ==
    /\ sres = "Ok"
    /\ lret.read
    /\ lret.outcome = "Opened"

\* C11: once a save has begun to overwrite a valid registry document, and at
\* every later point of that save (whether it goes on, fails or is cut short
\* by a crash), loading the file succeeds and returns the list that was
\* there before or the list being saved.
C11_CrashSafe ==
    prev.kind = "Ok" =>
        LET r == load_instances(disk, "Opened")
        IN /\ r.kind = "Ok"
           /\ r.list \in {prev.list, Reloaded(mem)}

\* C12: a load after a successful save returns a list of the same length and
\* order, with the six persisted fields of every entry as they were saved
\* and with every entry in state Ready, whatever its state was when saved.
C12_RoundTrip ==
    LoadedAfterSave =>
        /\ lret.res.kind = "Ok"
        /\ Len(lret.res.list) = Len(mem)
        /\ \A i \in 1..Len(mem) :
            LET l == lret.res.list[i]
                m == mem[i]
            IN /\ l.path = m.path
               /\ l.executable = m.executable
               /\ l.name = m.name
               /\ l.version = m.version
               /\ l.instance_type = m.instance_type
               /\ l.source = m.source
               /\ l.state = Ready

\* a list of two different instances, neither of them Ready, was saved and
\* loaded back
C12_Witness ==
    /\ LoadedAfterSave
    /\ Len(mem) = 2
    /\ mem[1].name # mem[2].name
    /\ mem[1].state = Playing
    /\ mem[2].state = Working("Updating")
    /\ Len(lret.res.list) = 2
    /\ lret.res.list[1].state = Ready

\* C13: a load that resolved the registry location returns the empty list
\* without error when the document does not exist, and returns an error
\* (never a list) when the document exists and is not well formed.
C13_AbsentIsEmptyMalformedIsError ==
    (lret.read /\ lret.outcome # "NoDir") =>
        /\ ~lret.file.exists => lret.res = Ok(<<>>)
        /\ (lret.file.exists /\ ~WellFormed(lret.file.content)) => lret.res = Err

\* the document that a crashed save left half written has been loaded
C13_Witness ==
    /\ spc = "crashed"
    /\ lret.read
    /\ lret.outcome = "Opened"
    /\ lret.file.exists
    /\ Len(lret.file.content) = 2
    /\ ~WellFormed(lret.file.content)
    /\ lret.res = Err

\* C14: whenever save_instances has returned an error, perform_save_instances
\* has returned () to its caller, and no step of a save changes the list in
\* memory or the state of any of its instances.
C14_FailedSaveSwallowed ==
    [][(sres' = "Err" => sret' = "unit") /\ mem' = mem]_vars

\* a save of a non-empty list failed after it had written part of the file
C14_Witness ==
    /\ spc = "idle"
    /\ sres = "Err"
    /\ sret = "unit"
    /\ mem # <<>>
    /\ \E i \in 1..Len(mem) : mem[i].state # Ready
    /\ disk.exists
    /\ disk.content # <<>>
    /\ Len(disk.content) < Len(mem) + 2

\* C15: archive() and executable() return a name for MacOS, Windows, Linux
\* and AppImage, and None for Unknown.
C15_DescriptorTotal ==
    /\ desc.type \in {"MacOS", "Windows", "Linux", "AppImage"} =>
        /\ desc.archive.some
        /\ desc.archive.val # ""
        /\ desc.executable.some
        /\ desc.executable.val # ""
    /\ desc.type = "Unknown" =>
        /\ desc.archive = None
        /\ desc.executable = None

\* Unknown has been asked
C15_Witness ==
    /\ desc.type = "Unknown"
    /\ desc.archive = None
    /\ desc.executable = None

----------------------------------------------------------------------------
\* Re-use of a routing key.  StartInstallation (main.rs:77-93) installs under
\* the name the user typed, which may be the name of an instance that has
\* been deleted; InstanceMessage is routed by that name (instance.rs:132-155,
\* main.rs:95-99).

MaxInstalls == 1

Installs == {o \in OpIds : ops[o].kind = "Install"}

\* The installation of a new instance named n has completed and the new
\* Instance, Ready, is in the registry.  The op record is history: it marks
\* the point in the order of operations at which the instance under key n
\* became a new one.
Install(n) ==
    /\ ~get_mut(instances, n)
    /\ Cardinality(Installs) < MaxInstalls
    /\ instances' = [k \in DOMAIN instances \cup {n} |->
                        IF k = n THEN NewInstance(n) ELSE instances[k]]
    /\ ops' = Append(ops, [NewOp("Install", n, NewInstance(n), "none")
                              EXCEPT !.pc = "done", !.ok = TRUE])
    /\ UNCHANGED <<channel, clicks, audio>>
    /\ UNCHANGED <<regvars, logvars>>

NextInstall ==
    \/ Next
    \/ \E n \in Names : Install(n)

SpecInstall == Init /\ [][NextInstall]_vars

\* C16: a StateChanged produced by an operation changes the state of the
\* instance the operation was scheduled for only: when it changes the state
\* of the instance registered under its key, that instance has not been
\* installed after the operation was scheduled.
C16_StateChangedReachesItsOwnInstance ==
    [][(/\ Handling("StateChanged")
        /\ Head(channel).op # 0
        /\ instances'[Head(channel).key].state
               # instances[Head(channel).key].state)
       => ~\E i \in Installs : /\ i > Head(channel).op
                               /\ ops[i].key = Head(channel).key]_vars

\* The step is the delete task of operation o removing, or failing to
\* remove, the install directory.
DeleteRuns(o) ==
    /\ ops[o].kind = "Delete"
    /\ ops[o].pc = "start"
    /\ ops'[o].pc = "done"

\* C17: the delete task of an instance runs only while no Play or Update
\* operation of that instance is in flight, for every sequence of presses of
\* the buttons that view offers.
C17_DeleteRunsAlone ==
    [][\A o \in OpIds : DeleteRuns(o) => InFlight(ops[o].key) = {}]_vars

----------------------------------------------------------------------------
\* Two installed instances.

Names2 == {"a", "b"}

InitTwo ==
    /\ instances = [n \in Names2 |-> NewInstance(n)]
    /\ channel = <<>>
    /\ ops = <<>>
    /\ clicks = 0
    /\ audio = "Play"
    /\ RegIdle
    /\ LogIdle

NextTwo ==
    \/ \E k \in Names2, b \in Buttons, dbg \in BOOLEAN : Click(k, b, dbg)
    \/ DispatchStart
    \/ DispatchSideEffect
    \/ DispatchStateChanged
    \/ DispatchMissing
    \/ DispatchUpdated
    \/ DispatchDeleted
    \/ DispatchDummy
    \/ \E o \in OpIds : DummyDone(o)
    \/ \E o \in OpIds, out \in LaunchOutcomes : PlayLaunch(o, out)
    \/ \E o \in OpIds, out \in ExitOutcomes : PlayExit(o, out)
    \/ \E o \in OpIds : PlayFinish(o)
    \/ \E o \in OpIds, res \in {"Ok", "Err"} : UpdateRun(o, res)
    \/ \E o \in OpIds, ok \in BOOLEAN : OpenFolder(o, ok)
    \/ \E o \in OpIds, ok \in BOOLEAN : DeleteRun(o, ok)

SpecTwo == InitTwo /\ [][NextTwo]_vars

\* The process that operation o launched is running.
Running(o) == ops[o].kind = "Play" /\ ops[o].pc = "running"

\* The step is operation o emitting the resume signal, MusicMessage(Play).
Resumes(o) == ops'[o].resumes > ops[o].resumes

\* C18: the audio signals bracket process execution across all instances:
\* the resume signal is never emitted while the launched process of another
\* instance is still running (so that the last signal is Pause for as long
\* as some process runs).
C18_NoResumeWhileAnotherRuns ==
    [][\A o \in OpIds :
          Resumes(o) => ~\E p \in OpIds : /\ Running(p)
                                          /\ ops[p].key # ops[o].key]_vars

----------------------------------------------------------------------------
\* The process launcher: one call of play() followed statement by statement
\* (instance.rs:297-345).  The log files are named after the second in which
\* play() was called; no other launch shares them.

MaxBytes == 2

Bytes == {0, 1}

\* Vec<u8> of at most MaxBytes bytes: what a process writes to a stream
Outputs == UNION {[1..n -> Bytes] : n \in 0..MaxBytes}

InitLaunch ==
    /\ CoreIdle
    /\ RegIdle
    /\ lpc = "create_dir"
    /\ logs \in {[dir |-> d, out |-> NoFile, err |-> NoFile] : d \in BOOLEAN}
    /\ proc = [started |-> FALSE, failed |-> FALSE, exited |-> FALSE,
               stdout |-> <<>>, stderr |-> <<>>, success |-> FALSE]
    /\ lres = ""

\* `?` on an io::Error: play() returns Err at once
ReturnErr ==
    /\ lpc' = "returned"
    /\ lres' = "Err"

\* fs::create_dir_all(&log_path)? (instance.rs:298-300)
CreateDir(ok) ==
    /\ lpc = "create_dir"
    /\ IF ok
       THEN /\ logs' = [logs EXCEPT !.dir = TRUE]
            /\ lpc' = "create_out"
            /\ UNCHANGED lres
       ELSE /\ ReturnErr
            /\ UNCHANGED logs
    /\ UNCHANGED proc
    /\ UNCHANGED <<corevars, regvars>>

\* File::create(out_path)? (instance.rs:305-307): a new, empty file
CreateOut(ok) ==
    /\ lpc = "create_out"
    /\ IF ok
       THEN /\ logs' = [logs EXCEPT !.out = File(<<>>)]
            /\ lpc' = "create_err"
            /\ UNCHANGED lres
       ELSE /\ ReturnErr
            /\ UNCHANGED logs
    /\ UNCHANGED proc
    /\ UNCHANGED <<corevars, regvars>>

\* File::create(err_path)? (instance.rs:309-311)
CreateErr(ok) ==
    /\ lpc = "create_err"
    /\ IF ok
       THEN /\ logs' = [logs EXCEPT !.err = File(<<>>)]
            /\ lpc' = "spawn"
            /\ UNCHANGED lres
       ELSE /\ ReturnErr
            /\ UNCHANGED logs
    /\ UNCHANGED proc
    /\ UNCHANGED <<corevars, regvars>>

\* Command::output() starts the executable, or fails to: the failure is
\* logged and play() returns Ok(()) (instance.rs:319-324, 342-344)
Spawn(ok) ==
    /\ lpc = "spawn"
    /\ IF ok
       THEN /\ proc' = [proc EXCEPT !.started = TRUE]
            /\ lpc' = "running"
            /\ UNCHANGED lres
       ELSE /\ proc' = [proc EXCEPT !.failed = TRUE]
            /\ lpc' = "returned"
            /\ lres' = "Ok"
    /\ UNCHANGED logs
    /\ UNCHANGED <<corevars, regvars>>

\* the process exits and output() returns what it captured
\* (instance.rs:325-326)
Exit(so, se, success) ==
    /\ lpc = "running"
    /\ proc' = [proc EXCEPT !.exited = TRUE, !.stdout = so, !.stderr = se,
                            !.success = success]
    /\ lpc' = "write_out"
    /\ UNCHANGED <<logs, lres>>
    /\ UNCHANGED <<corevars, regvars>>

\* the buffers handed to the two write_all calls (instance.rs:328-329)
captured_out(p) == p.stdout

captured_err_is_stdout(p) == p.stdout

captured_err(p) == p.stderr

\* write_all(buf) on a file: all of buf is appended, or the write fails
\* after n < Len(buf) bytes
write_all(f, buf, n) == File(f.content \o SubSeq(buf, 1, n))

\* out.write_all(&output.stdout)? (instance.rs:328)
WriteOut(n) ==
    /\ lpc = "write_out"
    /\ n \in 0..Len(captured_out(proc))
    /\ logs' = [logs EXCEPT !.out = write_all(@, captured_out(proc), n)]
    /\ IF n = Len(captured_out(proc))
       THEN /\ lpc' = "write_err"
            /\ UNCHANGED lres
       ELSE ReturnErr
    /\ UNCHANGED proc
    /\ UNCHANGED <<corevars, regvars>>

\* err.write_all(&output.stderr)?, then Ok(()) (instance.rs:329-344)
WriteErr(n) ==
    /\ lpc = "write_err"
    /\ n \in 0..Len(captured_err(proc))
    /\ logs' = [logs EXCEPT !.err = write_all(@, captured_err(proc), n)]
    /\ lpc' = "returned"
    /\ lres' = IF n = Len(captured_err(proc)) THEN "Ok" ELSE "Err"
    /\ UNCHANGED proc
    /\ UNCHANGED <<corevars, regvars>>

NextLaunch ==
    \/ \E ok \in BOOLEAN : CreateDir(ok)
    \/ \E ok \in BOOLEAN : CreateOut(ok)
    \/ \E ok \in BOOLEAN : CreateErr(ok)
    \/ \E ok \in BOOLEAN : Spawn(ok)
    \/ \E so \in Outputs, se \in Outputs, success \in BOOLEAN :
          Exit(so, se, success)
    \/ \E n \in 0..MaxBytes : WriteOut(n)
    \/ \E n \in 0..MaxBytes : WriteErr(n)

SpecLaunch == InitLaunch /\ [][NextLaunch]_vars

\* The executable is started only after the logs directory and both log
\* files have been created.
StartedAfterLogsCreated ==
    (proc.started \/ proc.failed) =>
        /\ logs.dir
        /\ logs.out.exists
        /\ logs.err.exists

\* When the process failed to start, both files exist and are empty and
\* play() returned Ok(()).
StartFailureLeavesEmptyLogs ==
    proc.failed =>
        /\ lpc = "returned"
        /\ lres = "Ok"
        /\ logs.out = File(<<>>)
        /\ logs.err = File(<<>>)

\* Both files hold what the process wrote to the two streams.
LogsHoldOutput ==
    /\ logs.out = File(proc.stdout)
    /\ logs.err = File(proc.stderr)

\* C19 as claimed: the executable is started only after the logs directory
\* and both files exist; once the process has run to completion and play()
\* has returned, .out holds exactly the captured stdout and .err exactly
\* the captured stderr; after a failure to start both files are empty and
\* play() reports no error.
C19_LogsOfALaunch ==
    /\ StartedAfterLogsCreated
    /\ StartFailureLeavesEmptyLogs
    /\ (proc.exited /\ lpc = "returned") => LogsHoldOutput

\* C19 as amended: as above, but the two files are claimed to hold the
\* captured bytes only when play() returned Ok(()); when it returned Err
\* after the process ran, a write failed and .out holds a prefix of the
\* captured stdout and .err a proper prefix of the captured stderr, or
\* nothing.
C19_LogsOfALaunchIfWritten ==
    /\ StartedAfterLogsCreated
    /\ StartFailureLeavesEmptyLogs
    /\ (proc.exited /\ lpc = "returned" /\ lres = "Ok") => LogsHoldOutput
    /\ (proc.exited /\ lpc = "returned" /\ lres = "Err") =>
        /\ ~LogsHoldOutput
        /\ logs.out.exists /\ logs.err.exists
        /\ Len(logs.out.content) <= Len(proc.stdout)
        /\ logs.out.content = SubSeq(proc.stdout, 1, Len(logs.out.content))
        /\ Len(logs.err.content) < Len(proc.stderr) \/ logs.err.content = <<>>
        /\ Len(logs.err.content) <= Len(proc.stderr)
        /\ logs.err.content = SubSeq(proc.stderr, 1, Len(logs.err.content))

\* a process that wrote different bytes to its two streams has exited with
\* failure status, and both logs have been written
C19_Witness ==
    /\ lpc = "returned"
    /\ lres = "Ok"
    /\ proc.exited
    /\ ~proc.success
    /\ proc.stdout = <<0, 1>>
    /\ proc.stderr = <<1>>
    /\ LogsHoldOutput

----------------------------------------------------------------------------
\* C20: the state of an instance is written by the handling of StateChanged
\* only.  Handling Play, Update, Folder or Delete leaves every instance as it
\* is, and so does every step that is not the control thread consuming a
\* message (a press of a button, a step of perform_play, perform_update,
\* delete, open_folder or dummy).  Handling StateChanged(s) sets the state of
\* the addressed instance to s, changes no other field and no other
\* instance, consumes that one message and schedules nothing.
C20_StateWrittenOnlyByStateChanged ==
    [][/\ \A msg \in Buttons : Handling(msg) => instances' = instances
       /\ ~Dispatching => instances' = instances
       /\ Handling("StateChanged") =>
            /\ instances' = [instances EXCEPT ![Head(channel).key].state =
                                                  Head(channel).state]
            /\ channel' = Tail(channel)
            /\ Len(ops') = Len(ops)
            /\ \A o \in OpIds : /\ ops'[o].pc = ops[o].pc
                                /\ ops'[o].dummy = ops[o].dummy]_vars

\* the StateChanged(Playing) of a Play has been handled, after the worker
\* had started the process, and the instance shows Playing
C20_Witness ==
    /\ "a" \in DOMAIN instances
    /\ instances["a"].state = Playing
    /\ instances["a"].version = 0
    /\ \E o \in OpIds : /\ ops[o].kind = "Play"
                        /\ ops[o].applied
                        /\ ops[o].pc = "running"

====
